---- MODULE Spec2Model ----
(***************************************************************************)
(* Model of energy_level_diagram/diagram.py: the Level / Column / Diagram  *)
(* data model, the builder calls, the column-position resolver, the level  *)
(* regulator and the draw instructions plot issues to the axes.            *)
(*                                                                         *)
(* Python floats are modelled as exact rationals <<n, d>> in lowest terms  *)
(* with d > 0 (rounding and overflow of IEEE doubles are not modelled).    *)
(* Optional[T] is modelled as a sequence: None is <<>> and a value v is    *)
(* <<v>>.  Objects live in heaps indexed by their creation number, so a    *)
(* Level or Column reference is its index (identity, never value).         *)
(* The renderer side of plot (bounding box, padding, ticks, title, show)   *)
(* is outside the model: plot's result is the sequence of draw calls.      *)
(***************************************************************************)
EXTENDS Integers, Sequences, FiniteSets

VARIABLES
    Levels,           \* heap of Level objects: [energy, label, column]
    Columns,          \* heap of Column objects: [levels, width, separation, label]
    columns,          \* Diagram.columns: sequence of Column references
    auto_regulation,  \* Diagram.auto_regulation
    _connections,     \* Diagram._connections
    _arrows,          \* Diagram._arrows
    _broken_arrows,   \* Diagram._broken_arrows
    _transitions,     \* Diagram._transitions
    _emissions,       \* Diagram._emissions
    call,             \* the most recent call: its name and arguments
    ret,              \* what that call returned
    given             \* the (width, separation) a uniform diagram is built with

vars == <<Levels, Columns, columns, auto_regulation, _connections, _arrows,
          _broken_arrows, _transitions, _emissions, call, ret, given>>

lists == <<_connections, _arrows, _broken_arrows, _transitions, _emissions>>

heap == <<Levels, Columns, columns>>

-----------------------------------------------------------------------------
(* Bounds of the model *)

\* Spec: Columns + Levels + connections of a diagram
MaxObjects == 5

\* SpecBuild: Columns + Levels built
MaxBuilt == 5

\* SpecArrows: Columns + Levels + annotation records
MaxArrowObjects == 6

\* SpecRegister: Columns + Levels + annotation records
MaxRegistered == 4

\* SpecRegulate: length of an energy list, and the largest energy (in halves)
MaxLen == 3

MaxEnergy == 2

\* SpecPositions and SpecUniform: columns of a diagram
MaxPositionColumns == 3

MaxUniform == 3

-----------------------------------------------------------------------------
(* Optional values and Python truthiness *)

None == <<>>

Some(v) == <<v>>

\* bool(label) for an Optional[str]: None and "" are falsy
TruthyStr(label) == label # None /\ label[1] # ""

-----------------------------------------------------------------------------
(* Exact rational arithmetic standing for float arithmetic *)

Abs(n) == IF n < 0 THEN -n ELSE n

RECURSIVE GCD(_, _)
GCD(a, b) == IF b = 0 THEN a ELSE GCD(b, a % b)

\* the rational n/d (d # 0) in lowest terms with a positive denominator
Q(n, d) ==
    LET g == GCD(Abs(n), Abs(d))
        s == IF d < 0 THEN -1 ELSE 1
    IN  <<(s * n) \div g, (s * d) \div g>>

Zero == <<0, 1>>

One == <<1, 1>>

QAdd(a, b) == Q(a[1] * b[2] + b[1] * a[2], a[2] * b[2])

QSub(a, b) == Q(a[1] * b[2] - b[1] * a[2], a[2] * b[2])

QMul(a, b) == Q(a[1] * b[1], a[2] * b[2])

QDiv(a, b) == Q(a[1] * b[2], a[2] * b[1])

QLeq(a, b) == a[1] * b[2] <= b[1] * a[2]

\* bool(x) for a float: 0.0 is falsy
TruthyNum(x) == x # Zero

\* Python's min() and max() over a non-empty list
min(s) == CHOOSE m \in {s[i] : i \in DOMAIN s} : \A i \in DOMAIN s : QLeq(m, s[i])

max(s) == CHOOSE m \in {s[i] : i \in DOMAIN s} : \A i \in DOMAIN s : QLeq(s[i], m)

RECURSIVE Flatten(_)
Flatten(ss) == IF ss = <<>> THEN <<>> ELSE Head(ss) \o Flatten(Tail(ss))

-----------------------------------------------------------------------------
(* Level and Column: the dataclasses and Column.add_level *)

\* Level(energy, label): column is None (0) until a column adopts it
Level(energy, label) == [energy |-> energy, label |-> label, column |-> 0]

\* Column(width=..., separation=..., label=...) with an empty levels list
Column(width, separation, label) ==
    [levels |-> <<>>, width |-> width, separation |-> separation, label |-> label]

DefaultWidth == Q(1, 2)

DefaultSeparation == Q(1, 1)

\* add_level without "level.column = self"
AddLevelToNoBackReference(Ls, Cs, col, energy, label) ==
    LET id == Len(Ls) + 1
    IN  <<Append(Ls, Level(energy, label)),
          [Cs EXCEPT ![col].levels = Append(@, id)],
          id>>

\* the heaps after col.add_level(energy, label): <<Levels', Columns', new level>>
AddLevelTo(Ls, Cs, col, energy, label) ==
    LET id == Len(Ls) + 1
        level == [Level(energy, label) EXCEPT !.column = col]
    IN  <<Append(Ls, level),
          [Cs EXCEPT ![col].levels = Append(@, id)],
          id>>

RECURSIVE AddLevelsTo(_, _, _, _)
\* the loop "for energy in levels: column.add_level(energy)"
AddLevelsTo(Ls, Cs, col, energies) ==
    IF energies = <<>> THEN <<Ls, Cs>>
    ELSE LET r == AddLevelTo(Ls, Cs, col, Head(energies), None)
         IN  AddLevelsTo(r[1], r[2], col, Tail(energies))

\* the constructor Level(energy, label), called directly: a Level no column owns
NewLevel(energy, label) ==
    /\ Levels' = Append(Levels, Level(energy, label))
    /\ call' = [op |-> "Level", energy |-> energy, label |-> label]
    /\ ret' = Len(Levels) + 1
    /\ UNCHANGED <<Columns, columns, auto_regulation, lists, given>>

\* the constructor Column(), called directly: a Column outside the Diagram
NewColumn ==
    /\ Columns' = Append(Columns, Column(DefaultWidth, DefaultSeparation, None))
    /\ call' = [op |-> "Column"]
    /\ ret' = Len(Columns) + 1
    /\ UNCHANGED <<Levels, columns, auto_regulation, lists, given>>

add_level(col, energy, label) ==
    LET r == AddLevelTo(Levels, Columns, col, energy, label)
    IN  /\ col \in DOMAIN Columns
        /\ Levels' = r[1]
        /\ Columns' = r[2]
        /\ call' = [op |-> "add_level", self |-> col, energy |-> energy, label |-> label]
        /\ ret' = r[3]
        /\ UNCHANGED <<columns, auto_regulation, lists, given>>

-----------------------------------------------------------------------------
(* Diagram: the builder calls *)

\* "width or 0.5" and "separation or 1.0": None and 0 are both falsy
OrDefault(arg, default) ==
    IF arg # None /\ TruthyNum(arg[1]) THEN arg[1] ELSE default

add_column(levels, width, separation, label) ==
    LET id == Len(Columns) + 1
        column == Column(OrDefault(width, DefaultWidth),
                         OrDefault(separation, DefaultSeparation), label)
        r == IF levels # None
             THEN AddLevelsTo(Levels, Append(Columns, column), id, levels[1])
             ELSE <<Levels, Append(Columns, column)>>
    IN  /\ Levels' = r[1]
        /\ Columns' = r[2]
        /\ columns' = Append(columns, id)
        /\ call' = [op |-> "add_column", levels |-> levels, width |-> width,
                    separation |-> separation, label |-> label]
        /\ ret' = id
        /\ UNCHANGED <<auto_regulation, lists, given>>

DefaultArrowColor == "black"

DefaultBreakPosition == Q(1, 2)

DefaultTransitionColor == "blue"

DefaultEmissionColor == "red"

\* a keyword argument left out (None here) takes its default
ArgOr(arg, default) == IF arg = None THEN default ELSE arg[1]

connect(level_a, level_b) ==
    /\ _connections' = Append(_connections, <<level_a, level_b>>)
    /\ call' = [op |-> "connect", level_a |-> level_a, level_b |-> level_b]
    /\ ret' = None
    /\ UNCHANGED <<heap, auto_regulation, _arrows, _broken_arrows, _transitions,
                   _emissions, given>>

add_vertical_arrow(level_a, level_b, x, label, color) ==
    /\ _arrows' = Append(_arrows,
          <<level_a, level_b, x, label, ArgOr(color, DefaultArrowColor)>>)
    /\ call' = [op |-> "add_vertical_arrow", level_a |-> level_a, level_b |-> level_b,
                x |-> x, label |-> label, color |-> color]
    /\ ret' = None
    /\ UNCHANGED <<heap, auto_regulation, _connections, _broken_arrows, _transitions,
                   _emissions, given>>

add_vertical_broken_arrow(level_a, level_b, x, label, break_position, color) ==
    /\ _broken_arrows' = Append(_broken_arrows,
          <<level_a, level_b, x, label, ArgOr(break_position, DefaultBreakPosition),
            ArgOr(color, DefaultArrowColor)>>)
    /\ call' = [op |-> "add_vertical_broken_arrow", level_a |-> level_a,
                level_b |-> level_b, x |-> x, label |-> label,
                break_position |-> break_position, color |-> color]
    /\ ret' = None
    /\ UNCHANGED <<heap, auto_regulation, _connections, _arrows, _transitions,
                   _emissions, given>>

add_transition(level_a, level_b, x, label, color) ==
    /\ _transitions' = Append(_transitions,
          <<level_a, level_b, x, label, ArgOr(color, DefaultTransitionColor)>>)
    /\ call' = [op |-> "add_transition", level_a |-> level_a, level_b |-> level_b,
                x |-> x, label |-> label, color |-> color]
    /\ ret' = None
    /\ UNCHANGED <<heap, auto_regulation, _connections, _arrows, _broken_arrows,
                   _emissions, given>>

\* add_spontaneous_emission with the default color of add_transition
add_spontaneous_emission_blue(level_a, level_b, x, label, color) ==
    /\ _emissions' = Append(_emissions,
          <<level_a, level_b, x, label, ArgOr(color, DefaultTransitionColor)>>)
    /\ call' = [op |-> "add_spontaneous_emission", level_a |-> level_a,
                level_b |-> level_b, x |-> x, label |-> label, color |-> color]
    /\ ret' = None
    /\ UNCHANGED <<heap, auto_regulation, _connections, _arrows, _broken_arrows,
                   _transitions, given>>

add_spontaneous_emission(level_a, level_b, x, label, color) ==
    /\ _emissions' = Append(_emissions,
          <<level_a, level_b, x, label, ArgOr(color, DefaultEmissionColor)>>)
    /\ call' = [op |-> "add_spontaneous_emission", level_a |-> level_a,
                level_b |-> level_b, x |-> x, label |-> label, color |-> color]
    /\ ret' = None
    /\ UNCHANGED <<heap, auto_regulation, _connections, _arrows, _broken_arrows,
                   _transitions, given>>

-----------------------------------------------------------------------------
(* The layout engine: column positions and level regulation *)

RECURSIVE PositionsLoopNoSeparation(_, _, _, _, _)
\* the loop without "current_pos += col.separation"
PositionsLoopNoSeparation(Cs, cols, i, current_pos, positions) ==
    IF i > Len(cols) THEN positions
    ELSE LET col == Cs[cols[i]]
         IN  PositionsLoopNoSeparation(Cs, cols, i + 1,
                                       QAdd(current_pos, col.width),
                                       Append(positions, current_pos))

RECURSIVE PositionsLoop(_, _, _, _, _)
\* the loop body of _compute_column_positions from column number i on
PositionsLoop(Cs, cols, i, current_pos, positions) ==
    IF i > Len(cols) THEN positions
    ELSE LET col == Cs[cols[i]]
         IN  PositionsLoop(Cs, cols, i + 1,
                           QAdd(QAdd(current_pos, col.width), col.separation),
                           Append(positions, current_pos))

\* _compute_column_positions of a Diagram whose columns are cols in heap Cs
Positions(Cs, cols) == PositionsLoop(Cs, cols, 1, Zero, <<>>)

_compute_column_positions == Positions(Columns, columns)

\* _regulate_levels without the auto_regulation test
RegulateAlways(energies) ==
    IF energies = <<>> THEN <<>>
    ELSE LET min_level == min(energies)
             max_level == max(energies)
             diff == QSub(max_level, min_level)
             span == IF TruthyNum(diff) THEN diff ELSE One
         IN  [i \in DOMAIN energies |-> QDiv(QSub(energies[i], min_level), span)]

\* _regulate_levels with min and max taken over every column of the Diagram
RegulateAcrossColumns(energies) ==
    IF energies = <<>> THEN <<>>
    ELSE IF ~auto_regulation THEN energies
    ELSE LET all == energies \o Flatten([i \in DOMAIN columns |->
                        [j \in DOMAIN Columns[columns[i]].levels |->
                            Levels[Columns[columns[i]].levels[j]].energy]])
             min_level == min(all)
             max_level == max(all)
             diff == QSub(max_level, min_level)
             span == IF TruthyNum(diff) THEN diff ELSE One
         IN  [i \in DOMAIN energies |-> QDiv(QSub(energies[i], min_level), span)]

_regulate_levels(energies) ==
    IF energies = <<>> THEN <<>>
    ELSE IF ~auto_regulation THEN energies
    ELSE LET min_level == min(energies)
             max_level == max(energies)
             diff == QSub(max_level, min_level)
             span == IF TruthyNum(diff) THEN diff ELSE One
         IN  [i \in DOMAIN energies |-> QDiv(QSub(energies[i], min_level), span)]

\* [lvl.energy for lvl in col.levels]
EnergiesOf(col) == [i \in DOMAIN col.levels |-> Levels[col.levels[i]].energy]

-----------------------------------------------------------------------------
(* plot: the coordinate map and the draw calls issued to the axes *)

\* the Levels that get an entry in level_coords: those of the Diagram's columns
LaidOut ==
    UNION {{Columns[columns[i]].levels[j] : j \in DOMAIN Columns[columns[i]].levels} :
              i \in DOMAIN columns}

\* level_coords[lvl] = (x, x + col.width, y); a later assignment overwrites
level_coords ==
    LET positions == _compute_column_positions
        Has(i, lvl) == \E j \in DOMAIN Columns[columns[i]].levels :
                          Columns[columns[i]].levels[j] = lvl
    IN  [lvl \in LaidOut |->
            LET i == CHOOSE k \in DOMAIN columns :
                        /\ Has(k, lvl)
                        /\ \A m \in DOMAIN columns : Has(m, lvl) => m <= k
                col == Columns[columns[i]]
                ys == _regulate_levels(EnergiesOf(col))
                j == CHOOSE k \in DOMAIN col.levels :
                        /\ col.levels[k] = lvl
                        /\ \A m \in DOMAIN col.levels : col.levels[m] = lvl => m <= k
            IN  <<positions[i], QAdd(positions[i], col.width), ys[j]>>]

\* what d[k] does for a key the dict lacks
KeyError == [prim |-> "KeyError"]

hlines(y, xmin, xmax, colors) ==
    [prim |-> "hlines", y |-> y, xmin |-> xmin, xmax |-> xmax, colors |-> colors]

text(x, y, s, ha, va) ==
    [prim |-> "text", x |-> x, y |-> y, s |-> s, ha |-> ha, va |-> va]

line(xs, ys, fmt, color, linewidth) ==
    [prim |-> "plot", xs |-> xs, ys |-> ys, fmt |-> fmt, color |-> color,
     linewidth |-> linewidth]

annotate(xy, xytext, arrowstyle, color, linestyle) ==
    [prim |-> "annotate", xy |-> xy, xytext |-> xytext, arrowstyle |-> arrowstyle,
     color |-> color, linestyle |-> linestyle]

\* lines 182-198: one hlines per Level, and its name when asked for
LevelDraws(show_level_name) ==
    LET positions == _compute_column_positions
        Row(col, x, lvl, y) ==
            <<hlines(y, x, QAdd(x, col.width), "black")>>
            \o (IF show_level_name /\ TruthyStr(Levels[lvl].label)
                THEN <<text(x, QAdd(y, Q(2, 100)), Levels[lvl].label[1], "left", "bottom")>>
                ELSE <<>>)
        Col(i) ==
            LET col == Columns[columns[i]]
                ys == _regulate_levels(EnergiesOf(col))
            IN  Flatten([j \in DOMAIN col.levels |->
                            Row(col, positions[i], col.levels[j], ys[j])])
    IN  Flatten([i \in DOMAIN columns |-> Col(i)])

\* float("inf"): above every rational under QLeq, and inf - gap = inf under QSub
Inf == <<1, 0>>

\* min_level_y after the layout loop
MinLevelY ==
    min(<<Inf>> \o Flatten([i \in DOMAIN columns |->
                              _regulate_levels(EnergiesOf(Columns[columns[i]]))]))

\* lines 200-210: the column names under the lowest level
ColumnLabelDraws(show_column_name, column_label_gap) ==
    LET positions == _compute_column_positions
        label_y == QSub(MinLevelY, column_label_gap)
        Col(i) ==
            LET col == Columns[columns[i]]
            IN  IF show_column_name /\ TruthyStr(col.label)
                THEN <<text(QAdd(positions[i], QDiv(col.width, Q(2, 1))), label_y,
                            col.label[1], "center", "top")>>
                ELSE <<>>
    IN  Flatten([i \in DOMAIN columns |-> Col(i)])

\* the test with its second half left out
FirstLaidOut(a, b, coords) == a \in DOMAIN coords

\* "if a in level_coords and b in level_coords"
BothLaidOut(a, b, coords) == a \in DOMAIN coords /\ b \in DOMAIN coords

\* the draws of a guarded block: reading level_coords[k] for a missing k raises
Guarded(a, b, coords, guard, draws) ==
    IF ~guard THEN <<>>
    ELSE IF a \notin DOMAIN coords \/ b \notin DOMAIN coords THEN <<KeyError>>
    ELSE draws

\* a connection drawn from the left edge of the first Level's row
ConnectionDrawFromLeftEdge(c, coords) ==
    Guarded(c[1], c[2], coords, BothLaidOut(c[1], c[2], coords),
        LET lx0 == coords[c[1]][1]
            y0 == coords[c[1]][3]
            rx0 == coords[c[2]][1]
            y1 == coords[c[2]][3]
        IN  <<line(<<lx0, rx0>>, <<y0, y1>>, Some("--"), "gray", None)>>)

\* lines 213-216: one registered connection
ConnectionDraw(c, coords) ==
    Guarded(c[1], c[2], coords, BothLaidOut(c[1], c[2], coords),
        LET lx1 == coords[c[1]][2]
            y0 == coords[c[1]][3]
            rx0 == coords[c[2]][1]
            y1 == coords[c[2]][3]
        IN  <<line(<<lx1, rx0>>, <<y0, y1>>, Some("--"), "gray", None)>>)

\* lines 212-216
ConnectionDraws(coords) ==
    Flatten([k \in DOMAIN _connections |-> ConnectionDraw(_connections[k], coords)])

\* the label of an arrow: "if label: ax.text(x_pos + 0.05, (y0 + y1) / 2, ...)"
LabelDraws(label, x_pos, y0, y1) ==
    IF TruthyStr(label)
    THEN <<text(QAdd(x_pos, Q(5, 100)), QDiv(QAdd(y0, y1), Q(2, 1)), label[1],
                "left", "center")>>
    ELSE <<>>

\* lines 218-229, 248-259 and 261-272: an arrow between two levels at x_pos
ArrowLikeDraws(records, coords, arrowstyle, linestyle) ==
    LET One_(r) ==
            Guarded(r[1], r[2], coords, BothLaidOut(r[1], r[2], coords),
                LET y0 == coords[r[1]][3]
                    y1 == coords[r[2]][3]
                IN  <<annotate(<<r[3], y1>>, <<r[3], y0>>, arrowstyle, r[5], linestyle)>>
                    \o LabelDraws(r[4], r[3], y0, y1))
    IN  Flatten([k \in DOMAIN records |-> One_(records[k])])

ArrowDraws(coords) == ArrowLikeDraws(_arrows, coords, "<->", None)

TransitionDraws(coords) == ArrowLikeDraws(_transitions, coords, "-|>", None)

EmissionDraws(coords) == ArrowLikeDraws(_emissions, coords, "->", Some("--"))

\* a broken arrow whose gap is 0.05 whatever the span of the arrow
BrokenArrowDrawFixedGap(r, coords) ==
    Guarded(r[1], r[2], coords, BothLaidOut(r[1], r[2], coords),
        LET y0 == coords[r[1]][3]
            y1 == coords[r[2]][3]
            x_pos == r[3]
            break_y == QAdd(y0, QMul(QSub(y1, y0), r[5]))
            gap == Q(5, 100)
        IN  <<annotate(<<x_pos, y1>>, <<x_pos, y0>>, "<->", r[6], None),
              line(<<x_pos, x_pos>>, <<QSub(break_y, gap), QAdd(break_y, gap)>>,
                   None, "white", Some(3)),
              text(QAdd(x_pos, Q(2, 100)), break_y, "~~", "left", "center")>>
            \o LabelDraws(r[4], x_pos, y0, y1))

\* lines 232-246: one registered broken arrow
BrokenArrowDraw(r, coords) ==
    Guarded(r[1], r[2], coords, BothLaidOut(r[1], r[2], coords),
        LET y0 == coords[r[1]][3]
            y1 == coords[r[2]][3]
            x_pos == r[3]
            break_y == QAdd(y0, QMul(QSub(y1, y0), r[5]))
            gap == QMul(QSub(y1, y0), Q(5, 100))
        IN  <<annotate(<<x_pos, y1>>, <<x_pos, y0>>, "<->", r[6], None),
              line(<<x_pos, x_pos>>, <<QSub(break_y, gap), QAdd(break_y, gap)>>,
                   None, "white", Some(3)),
              text(QAdd(x_pos, Q(2, 100)), break_y, "~~", "left", "center")>>
            \o LabelDraws(r[4], x_pos, y0, y1))

\* lines 231-246
BrokenArrowDraws(coords) ==
    Flatten([k \in DOMAIN _broken_arrows |-> BrokenArrowDraw(_broken_arrows[k], coords)])

\* lines 276-284: every level of a column to every level of the next one
BipartiteDraws(coords) ==
    LET Pair(l, r) ==
            Guarded(l, r, coords, BothLaidOut(l, r, coords),
                <<line(<<coords[l][2], coords[r][1]>>,
                       <<coords[l][3], coords[r][3]>>, Some("--"), "gray", None)>>)
        Idx(idx) ==
            LET left_col == Columns[columns[idx - 1]]
                right_col == Columns[columns[idx]]
            IN  Flatten([a \in DOMAIN left_col.levels |->
                   Flatten([b \in DOMAIN right_col.levels |->
                               Pair(left_col.levels[a], right_col.levels[b])])])
    IN  Flatten([k \in 1..(Len(columns) - 1) |-> Idx(k + 1)])

\* the default connections drawn although connections were registered
DefaultConnectionDrawsAlways(connect_, coords) ==
    IF connect_ /\ Len(columns) > 1 THEN BipartiteDraws(coords) ELSE <<>>

\* lines 274-284
DefaultConnectionDraws(connect_, coords) ==
    IF connect_ /\ Len(columns) > 1 /\ _connections = <<>>
    THEN BipartiteDraws(coords)
    ELSE <<>>

\* every draw call of plot, in the order the code issues them
AllDraws(connect_, show_level_name, show_column_name, column_label_gap) ==
    LET coords == level_coords
    IN  LevelDraws(show_level_name)
        \o ColumnLabelDraws(show_column_name, column_label_gap)
        \o ConnectionDraws(coords)
        \o ArrowDraws(coords)
        \o BrokenArrowDraws(coords)
        \o TransitionDraws(coords)
        \o EmissionDraws(coords)
        \o DefaultConnectionDraws(connect_, coords)

\* the draws before the first exception, and whether there was one
PlotResult(all) ==
    LET bad == {k \in DOMAIN all : all[k] = KeyError}
        first == CHOOSE k \in bad : \A m \in bad : k <= m
    IN  IF bad = {} THEN [raised |-> None, draws |-> all]
        ELSE [raised |-> Some("KeyError"), draws |-> SubSeq(all, 1, first - 1)]

plot(connect_, show_level_name, show_column_name, column_label_gap) ==
    /\ call' = [op |-> "plot", connect |-> connect_, show_level_name |-> show_level_name,
                show_column_name |-> show_column_name,
                column_label_gap |-> column_label_gap]
    /\ ret' = PlotResult(AllDraws(connect_, show_level_name, show_column_name,
                                  column_label_gap))
    /\ UNCHANGED <<heap, auto_regulation, lists, given>>

-----------------------------------------------------------------------------
(* Direct calls of the two layout methods, as the tests make them *)

call_compute_column_positions ==
    /\ call' = [op |-> "_compute_column_positions"]
    /\ ret' = _compute_column_positions
    /\ UNCHANGED <<heap, auto_regulation, lists, given>>

call_regulate_levels(energies) ==
    /\ call' = [op |-> "_regulate_levels", energies |-> energies]
    /\ ret' = _regulate_levels(energies)
    /\ UNCHANGED <<heap, auto_regulation, lists, given>>

-----------------------------------------------------------------------------
(* The Diagram after construction *)

Init ==
    /\ Levels = <<>>
    /\ Columns = <<>>
    /\ columns = <<>>
    /\ auto_regulation \in BOOLEAN
    /\ _connections = <<>>
    /\ _arrows = <<>>
    /\ _broken_arrows = <<>>
    /\ _transitions = <<>>
    /\ _emissions = <<>>
    /\ call = [op |-> "Diagram"]
    /\ ret = None
    /\ given = None

NumAnnotations ==
    Len(_connections) + Len(_arrows) + Len(_broken_arrows) + Len(_transitions)
    + Len(_emissions)

\* the objects built so far: Columns, Levels and annotation records
NumObjects == Len(Columns) + Len(Levels) + NumAnnotations

SeedLen(levels) == IF levels = None THEN 0 ELSE Len(levels[1])

-----------------------------------------------------------------------------
(* Spec: a client builds columns and levels, connects levels and plots *)

\* (energy, label) a client passes to add_level
LevelArgs == {<<Q(1, 1), Some("g")>>, <<Q(3, 1), None>>}

\* seed lists a client passes to add_column
SeedArgs == {None, Some(<<Q(3, 1), Q(0, 1)>>)}

\* (width, separation, label) a client passes to add_column
ColumnArgs == {<<None, None, None>>, <<Some(Q(1, 5)), Some(Q(3, 10)), Some("B")>>}

\* (connect, show_level_name, show_column_name) a client passes to plot
PlotArgs == {<<FALSE, FALSE, FALSE>>, <<TRUE, TRUE, TRUE>>}

CallAddColumn ==
    \E levels \in SeedArgs, a \in ColumnArgs :
        /\ NumObjects + 1 + SeedLen(levels) <= MaxObjects
        /\ add_column(levels, a[1], a[2], a[3])

CallAddLevel ==
    \E col \in DOMAIN Columns, a \in LevelArgs :
        /\ NumObjects < MaxObjects
        /\ add_level(col, a[1], a[2])

CallLevel ==
    /\ NumObjects < MaxObjects
    /\ NewLevel(Q(1, 1), None)

CallConnect ==
    \E a \in DOMAIN Levels, b \in DOMAIN Levels :
        /\ NumObjects < MaxObjects
        /\ connect(a, b)

CallPlot ==
    \E a \in PlotArgs : plot(a[1], a[2], a[3], Q(1, 10))

Next ==
    \/ CallAddColumn
    \/ CallAddLevel
    \/ CallLevel
    \/ CallConnect
    \/ CallPlot

Spec == Init /\ [][Next]_vars

-----------------------------------------------------------------------------
(* SpecBuild: add_column and Column.add_level, on the Diagram's columns and *)
(* on a Column built outside it                                            *)

BuildSeedArgs == {None, Some(<<>>), Some(<<Q(1, 1)>>), Some(<<Q(3, 1), Q(0, 1)>>)}

BuildLevelArgs == {<<Q(0, 1), None>>, <<Q(1, 1), Some("g")>>}

BuildAddColumn ==
    \E levels \in BuildSeedArgs, a \in ColumnArgs :
        /\ Len(Columns) + Len(Levels) + 1 + SeedLen(levels) <= MaxBuilt
        /\ add_column(levels, a[1], a[2], a[3])

BuildAddLevel ==
    \E col \in DOMAIN Columns, a \in BuildLevelArgs :
        /\ Len(Columns) + Len(Levels) < MaxBuilt
        /\ add_level(col, a[1], a[2])

BuildColumn ==
    /\ Len(Columns) + Len(Levels) < MaxBuilt
    /\ NewColumn

NextBuild ==
    \/ BuildAddColumn
    \/ BuildAddLevel
    \/ BuildColumn

SpecBuild == Init /\ [][NextBuild]_vars

-----------------------------------------------------------------------------
(* SpecArrows: a diagram with one column [3, 0] and a Level no column owns, *)
(* to which a client adds annotations of every kind, and plots             *)

InitArrows ==
    LET built == AddLevelsTo(<<>>, <<Column(DefaultWidth, DefaultSeparation, None)>>,
                             1, <<Q(3, 1), Q(0, 1)>>)
    IN  /\ Levels = Append(built[1], Level(Q(1, 1), None))
        /\ Columns = built[2]
        /\ columns = <<1>>
        /\ auto_regulation \in BOOLEAN
        /\ _connections = <<>>
        /\ _arrows = <<>>
        /\ _broken_arrows = <<>>
        /\ _transitions = <<>>
        /\ _emissions = <<>>
        /\ call = [op |-> "Level", energy |-> Q(1, 1), label |-> None]
        /\ ret = 3
        /\ given = None

\* (x, label, color) a client passes to the arrow-like registrations
ArrowArgs == {<<Q(1, 4), Some("hv"), None>>}

\* (x, label, break_position, color) a client passes to add_vertical_broken_arrow
BrokenArgs == {<<Q(1, 4), None, Some(Q(3, 5)), None>>,
               <<Q(1, 4), Some("gap"), None, None>>}

ArrowsAddColumn ==
    /\ NumObjects + 2 <= MaxArrowObjects
    /\ add_column(Some(<<Q(1, 1)>>), None, None, None)

ArrowsConnect ==
    \E a \in DOMAIN Levels, b \in DOMAIN Levels :
        /\ NumObjects < MaxArrowObjects
        /\ connect(a, b)

ArrowsAddVerticalArrow ==
    \E a \in DOMAIN Levels, b \in DOMAIN Levels, r \in ArrowArgs :
        /\ NumObjects < MaxArrowObjects
        /\ add_vertical_arrow(a, b, r[1], r[2], r[3])

ArrowsAddVerticalBrokenArrow ==
    \E a \in DOMAIN Levels, b \in DOMAIN Levels, r \in BrokenArgs :
        /\ NumObjects < MaxArrowObjects
        /\ add_vertical_broken_arrow(a, b, r[1], r[2], r[3], r[4])

ArrowsAddTransition ==
    \E a \in DOMAIN Levels, b \in DOMAIN Levels, r \in ArrowArgs :
        /\ NumObjects < MaxArrowObjects
        /\ add_transition(a, b, r[1], r[2], r[3])

ArrowsAddSpontaneousEmission ==
    \E a \in DOMAIN Levels, b \in DOMAIN Levels, r \in ArrowArgs :
        /\ NumObjects < MaxArrowObjects
        /\ add_spontaneous_emission(a, b, r[1], r[2], r[3])

ArrowsPlot == plot(FALSE, FALSE, FALSE, Q(1, 10))

NextArrows ==
    \/ ArrowsAddColumn
    \/ ArrowsConnect
    \/ ArrowsAddVerticalArrow
    \/ ArrowsAddVerticalBrokenArrow
    \/ ArrowsAddTransition
    \/ ArrowsAddSpontaneousEmission
    \/ ArrowsPlot

SpecArrows == InitArrows /\ [][NextArrows]_vars

-----------------------------------------------------------------------------
(* SpecRegister: the five registration calls with and without their keyword *)
(* arguments, among add_column, add_level, Level() and plot                *)

RegArrowArgs == {<<Q(1, 4), None, None>>, <<Q(3, 10), Some("hv"), Some("green")>>}

RegBrokenArgs == {<<Q(1, 4), None, None, None>>,
                  <<Q(3, 10), Some("gap"), Some(Q(3, 5)), Some("green")>>}

RegAddColumn ==
    /\ NumObjects + 2 <= MaxRegistered
    /\ add_column(Some(<<Q(1, 1)>>), None, None, None)

RegAddLevel ==
    \E col \in DOMAIN Columns :
        /\ NumObjects < MaxRegistered
        /\ add_level(col, Q(3, 1), None)

RegLevel ==
    /\ NumObjects < MaxRegistered
    /\ NewLevel(Q(1, 1), None)

RegConnect ==
    \E a \in DOMAIN Levels, b \in DOMAIN Levels :
        /\ NumObjects < MaxRegistered
        /\ connect(a, b)

RegAddVerticalArrow ==
    \E a \in DOMAIN Levels, b \in DOMAIN Levels, r \in RegArrowArgs :
        /\ NumObjects < MaxRegistered
        /\ add_vertical_arrow(a, b, r[1], r[2], r[3])

RegAddVerticalBrokenArrow ==
    \E a \in DOMAIN Levels, b \in DOMAIN Levels, r \in RegBrokenArgs :
        /\ NumObjects < MaxRegistered
        /\ add_vertical_broken_arrow(a, b, r[1], r[2], r[3], r[4])

RegAddTransition ==
    \E a \in DOMAIN Levels, b \in DOMAIN Levels, r \in RegArrowArgs :
        /\ NumObjects < MaxRegistered
        /\ add_transition(a, b, r[1], r[2], r[3])

RegAddSpontaneousEmission ==
    \E a \in DOMAIN Levels, b \in DOMAIN Levels, r \in RegArrowArgs :
        /\ NumObjects < MaxRegistered
        /\ add_spontaneous_emission(a, b, r[1], r[2], r[3])

RegPlot == plot(TRUE, FALSE, FALSE, Q(1, 10))

NextRegister ==
    \/ RegAddColumn
    \/ RegAddLevel
    \/ RegLevel
    \/ RegConnect
    \/ RegAddVerticalArrow
    \/ RegAddVerticalBrokenArrow
    \/ RegAddTransition
    \/ RegAddSpontaneousEmission
    \/ RegPlot

SpecRegister == Init /\ [][NextRegister]_vars

-----------------------------------------------------------------------------
(* SpecRegulate: _regulate_levels called on an energy list, which then      *)
(* seeds the one column of the diagram that is plotted                     *)

\* energies in halves, from -1/2 up
RegulateEnergies == {Q(e, 2) : e \in (-1)..MaxEnergy}

RegulateLists == UNION {[1..n -> RegulateEnergies] : n \in 0..MaxLen}

RegulateCall ==
    \E energies \in RegulateLists :
        /\ columns = <<>>
        /\ call_regulate_levels(energies)

\* the list just regulated becomes the one column of the diagram
RegulateAddColumn ==
    /\ columns = <<>>
    /\ call.op = "_regulate_levels"
    /\ add_column(Some(call.energies), None, None, None)

RegulatePlot ==
    /\ columns # <<>>
    /\ plot(FALSE, FALSE, FALSE, Q(1, 10))

NextRegulate ==
    \/ RegulateCall
    \/ RegulateAddColumn
    \/ RegulatePlot

SpecRegulate == Init /\ [][NextRegulate]_vars

-----------------------------------------------------------------------------
(* SpecPositions: columns of several widths and separations, then          *)
(* _compute_column_positions                                               *)

WidthArgs == {None, Some(Q(1, 5)), Some(Q(2, 5))}

SeparationArgs == {None, Some(Q(0, 1)), Some(Q(3, 10))}

PositionsAddColumn ==
    \E width \in WidthArgs, separation \in SeparationArgs :
        /\ Len(columns) < MaxPositionColumns
        /\ add_column(None, width, separation, None)

PositionsCall == call_compute_column_positions

NextPositions ==
    \/ PositionsAddColumn
    \/ PositionsCall

SpecPositions == Init /\ [][NextPositions]_vars

-----------------------------------------------------------------------------
(* SpecUniform: every column is created by add_column(width=w, separation=s) *)
(* with the same w and s, each given or left out                           *)

UniformWidthArgs == {None, Some(Q(1, 5)), Some(Q(1, 2)), Some(Q(2, 5))}

UniformSeparationArgs == {None, Some(Q(0, 1)), Some(Q(3, 10)), Some(Q(1, 1))}

InitUniform ==
    /\ Levels = <<>>
    /\ Columns = <<>>
    /\ columns = <<>>
    /\ auto_regulation = TRUE
    /\ _connections = <<>>
    /\ _arrows = <<>>
    /\ _broken_arrows = <<>>
    /\ _transitions = <<>>
    /\ _emissions = <<>>
    /\ call = [op |-> "Diagram"]
    /\ ret = None
    /\ given \in {Some([width |-> w, separation |-> s]) :
                    w \in UniformWidthArgs, s \in UniformSeparationArgs}

UniformAddColumn ==
    /\ Len(columns) < MaxUniform
    /\ add_column(Some(<<Q(0, 1)>>), given[1].width, given[1].separation, None)

UniformCall == call_compute_column_positions

NextUniform ==
    \/ UniformAddColumn
    \/ UniformCall

SpecUniform == InitUniform /\ [][NextUniform]_vars

-----------------------------------------------------------------------------
(* Helpers of the properties below *)

Range(s) == {s[i] : i \in DOMAIN s}

\* the place of a laid-out Level: <<i, j>> with columns[i].levels[j] = lvl
PlaceOf(lvl) ==
    CHOOSE p \in (DOMAIN columns) \X (DOMAIN Levels) :
        /\ p[2] \in DOMAIN Columns[columns[p[1]]].levels
        /\ Columns[columns[p[1]]].levels[p[2]] = lvl

\* the left x of the column of a laid-out Level, from the position resolver
LeftX(lvl) == _compute_column_positions[PlaceOf(lvl)[1]]

WidthAt(lvl) == Columns[columns[PlaceOf(lvl)[1]]].width

\* the y of a laid-out Level, from the level regulator on its own column
YAt(lvl) ==
    _regulate_levels(EnergiesOf(Columns[columns[PlaceOf(lvl)[1]]]))[PlaceOf(lvl)[2]]

\* the dashed segment from the right edge of a's row to the left edge of b's row
Segment(a, b) ==
    line(<<QAdd(LeftX(a), WidthAt(a)), LeftX(b)>>, <<YAt(a), YAt(b)>>,
         Some("--"), "gray", None)

IsDashed(d) == d.prim = "plot" /\ d.fmt = Some("--")

IsHlines(d) == d.prim = "hlines"

Dashed == SelectSeq(ret.draws, IsDashed)

Count(s, prim, field, value) ==
    Cardinality({k \in DOMAIN s : s[k].prim = prim /\ s[k][field] = value})

\* the records of an annotation list whose two Levels are both laid out
Resolved(records) == {k \in DOMAIN records :
                         records[k][1] \in LaidOut /\ records[k][2] \in LaidOut}

RECURSIVE SumWidthsAndSeparations(_)
\* the sum of width + separation over the first k columns
SumWidthsAndSeparations(k) ==
    IF k = 0 THEN Zero
    ELSE QAdd(SumWidthsAndSeparations(k - 1),
              QAdd(Columns[columns[k]].width, Columns[columns[k]].separation))

-----------------------------------------------------------------------------
(* The properties *)

\* C6: with auto_regulation = False, _regulate_levels returns its input list
\* element for element (empty or not, equal values or not), and plot draws
\* every Level at y equal to its energy.
C6_NoAutoIsIdentity ==
    ~auto_regulation =>
        /\ call.op = "_regulate_levels" => ret = call.energies
        /\ call.op = "plot" =>
              LET rows == SelectSeq(ret.draws, IsHlines)
                  col == Columns[columns[1]]
              IN  /\ Len(rows) = Len(col.levels)
                  /\ \A j \in DOMAIN col.levels :
                        rows[j].y = Levels[col.levels[j]].energy

C6_Witness ==
    /\ ~auto_regulation
    /\ call.op = "plot"
    /\ Len(Columns[1].levels) = 3
    /\ Levels[1].energy = Levels[2].energy
    /\ Levels[2].energy # Levels[3].energy

\* C2: _compute_column_positions returns one x per column, in column order;
\* the first is 0 and the i-th is the sum of width + separation over the
\* columns before it, so the gap after column i is column i's separation and
\* the last column's separation affects no position.
C2_PositionsAreRunningSums ==
    call.op = "_compute_column_positions" =>
        LET n == Len(columns)
            W(i) == Columns[columns[i]].width
            S(i) == Columns[columns[i]].separation
        IN  /\ Len(ret) = n
            /\ n >= 1 => ret[1] = Zero
            /\ \A i \in 1..n : ret[i] = SumWidthsAndSeparations(i - 1)
            /\ \A i \in 1..(n - 1) : QSub(ret[i + 1], QAdd(ret[i], W(i))) = S(i)
            /\ n >= 1 =>
                  \A other \in {Q(0, 1), Q(7, 10), Q(5, 1)} :
                      Positions([Columns EXCEPT ![columns[n]].separation = other],
                                columns) = ret

C2_Witness ==
    /\ call.op = "_compute_column_positions"
    /\ Len(columns) = 3
    /\ Columns[1].width # Columns[2].width
    /\ Columns[1].separation # Columns[2].separation
    /\ ret = <<Q(0, 1), Q(1, 2), Q(19, 10)>>

\* C3: in a diagram whose columns were all created by
\* add_column(width=w, separation=s), w positive and s non-negative (s = 0
\* included), the left x of column i (0-based) is i * (w + s); a width or
\* separation left out counts as 0.5 or 1.0.
C3_UniformPositions ==
    call.op = "_compute_column_positions" =>
        LET w == IF given[1].width = None THEN Q(1, 2) ELSE given[1].width[1]
            s == IF given[1].separation = None THEN Q(1, 1)
                 ELSE given[1].separation[1]
        IN  /\ Len(ret) = Len(columns)
            /\ \A i \in DOMAIN ret : ret[i] = QMul(Q(i - 1, 1), QAdd(w, s))

\* the k-th hlines of plot is the row of the k-th Level in column order
LevelOrder == Flatten([i \in DOMAIN columns |-> Columns[columns[i]].levels])

\* how many Levels the columns before column i hold
LevelsBefore(i) == Len(Flatten([k \in 1..(i - 1) |-> Columns[columns[k]].levels]))

\* C1: with auto_regulation = True, the y plot gives the levels of a non-empty
\* column is (e - min) / span over that column's own energies (span = 1.0 when
\* max = min): same length and order as the energies, minimum 0.0 and maximum
\* 1.0 unless all are equal, then 0.0 throughout; other columns play no part.
C1_RegulationIsPerColumn ==
    (call.op = "plot" /\ auto_regulation) =>
        LET rows == SelectSeq(ret.draws, IsHlines)
        IN  /\ Len(rows) = Len(LevelOrder)
            /\ \A i \in DOMAIN columns :
                  LET col == Columns[columns[i]]
                      es == EnergiesOf(col)
                      ys == [j \in DOMAIN es |-> rows[LevelsBefore(i) + j].y]
                      lo == CHOOSE e \in Range(es) : \A f \in Range(es) : QLeq(e, f)
                      hi == CHOOSE e \in Range(es) : \A f \in Range(es) : QLeq(f, e)
                      span == IF hi = lo THEN One ELSE QSub(hi, lo)
                  IN  es # <<>> =>
                        /\ \A j \in DOMAIN es : ys[j] = QDiv(QSub(es[j], lo), span)
                        /\ \A j \in DOMAIN es : QLeq(Zero, ys[j]) /\ QLeq(ys[j], One)
                        /\ Zero \in Range(ys)
                        /\ IF hi = lo THEN Range(ys) = {Zero} ELSE One \in Range(ys)

C1_Witness ==
    /\ call.op = "plot"
    /\ auto_regulation
    /\ Len(columns) = 2
    /\ EnergiesOf(Columns[columns[1]]) = <<Q(3, 1), Q(0, 1)>>
    /\ EnergiesOf(Columns[columns[2]]) = <<Q(1, 1)>>

\* C5: plot draws default connections exactly when connect = True, no explicit
\* connection is registered and there are at least two columns: then one dashed
\* segment for every Level of column i with every Level of column i + 1, and
\* for no other pair.  Otherwise no default connection is drawn: the dashed
\* segments are those of the explicit connections that are laid out.
C5_DefaultConnections ==
    call.op = "plot" =>
        LET pairs == {t \in (DOMAIN columns) \X (DOMAIN Levels) \X (DOMAIN Levels) :
                        /\ t[1] + 1 \in DOMAIN columns
                        /\ t[2] \in Range(Columns[columns[t[1]]].levels)
                        /\ t[3] \in Range(Columns[columns[t[1] + 1]].levels)}
        IN  IF call.connect /\ _connections = <<>> /\ Len(columns) >= 2
            THEN /\ Len(Dashed) = Cardinality(pairs)
                 /\ \A t \in pairs : Segment(t[2], t[3]) \in Range(Dashed)
                 /\ \A d \in Range(Dashed) : \E t \in pairs : d = Segment(t[2], t[3])
            ELSE Len(Dashed) = Cardinality(Resolved(_connections))

C5_Witness ==
    /\ call.op = "plot"
    /\ call.connect
    /\ _connections = <<>>
    /\ Len(columns) = 2
    /\ Len(Columns[columns[1]].levels) = 2
    /\ Len(Columns[columns[2]].levels) = 1
    /\ Len(Dashed) = 2

RECURSIVE ResolvedSegments(_)
\* the segments of the laid-out connections among the first k, in order
ResolvedSegments(k) ==
    IF k = 0 THEN <<>>
    ELSE ResolvedSegments(k - 1)
         \o (IF k \in Resolved(_connections)
             THEN <<Segment(_connections[k][1], _connections[k][2])>>
             ELSE <<>>)

\* C7: for every explicit connection (A, B) with both Levels laid out, plot
\* draws exactly one dashed segment from (left x of A's column + its width,
\* y of A) to (left x of B's column, y of B): A is the Level registered first,
\* whatever the order of the two columns.
C7_ConnectionSegments ==
    (call.op = "plot" /\ _connections # <<>>) =>
        Dashed = ResolvedSegments(Len(_connections))

C7_Witness ==
    /\ call.op = "plot"
    /\ Len(_connections) = 1
    /\ _connections[1][1] \in LaidOut
    /\ _connections[1][2] \in LaidOut
    /\ PlaceOf(_connections[1][1])[1] = 2
    /\ PlaceOf(_connections[1][2])[1] = 1
    /\ Len(Dashed) = 1

\* the texts plot writes beside an arrow: its label
IsArrowLabel(d) == d.prim = "text" /\ d.va = "center" /\ d.s # "~~"

\* the records of an annotation list that are laid out and carry a label
Labelled(records) == {k \in Resolved(records) : TruthyStr(records[k][4])}

\* C4: for every kind of annotation, if one of its two Levels belongs to no
\* column of the Diagram, plot does not raise and issues no draw call for it
\* (no line, arrow, break glyph or label), and the annotations whose Levels
\* both belong to columns of the Diagram are all drawn.
C4_UnknownLevelsAreSkipped ==
    call.op = "plot" =>
        LET draws == ret.draws
        IN  /\ ret.raised = None
            /\ Len(Dashed) = Cardinality(Resolved(_connections))
            /\ Count(draws, "annotate", "arrowstyle", "<->")
                 = Cardinality(Resolved(_arrows)) + Cardinality(Resolved(_broken_arrows))
            /\ Count(draws, "annotate", "arrowstyle", "-|>")
                 = Cardinality(Resolved(_transitions))
            /\ Count(draws, "annotate", "arrowstyle", "->")
                 = Cardinality(Resolved(_emissions))
            /\ Count(draws, "plot", "color", "white")
                 = Cardinality(Resolved(_broken_arrows))
            /\ Count(draws, "text", "s", "~~") = Cardinality(Resolved(_broken_arrows))
            /\ Len(SelectSeq(draws, IsArrowLabel))
                 = Cardinality(Labelled(_arrows)) + Cardinality(Labelled(_broken_arrows))
                   + Cardinality(Labelled(_transitions))
                   + Cardinality(Labelled(_emissions))

C4_Witness ==
    /\ call.op = "plot"
    /\ ret.raised = None
    /\ Len(_transitions) = 1
    /\ _transitions[1][1] \in LaidOut
    /\ _transitions[1][2] \notin LaidOut
    /\ Len(_emissions) = 1
    /\ Resolved(_emissions) = {1}
    /\ Count(ret.draws, "annotate", "arrowstyle", "->") = 1
    /\ Count(ret.draws, "annotate", "arrowstyle", "-|>") = 0

QAbs(a) == <<Abs(a[1]), a[2]>>

\* C8: for every broken arrow between laid-out Levels at y0 and y1 with break
\* position p in [0, 1], plot draws the gap glyph at the arrow's x, centred at
\* break_y = y0 + (y1 - y0) * p and reaching 5% of the span y1 - y0 to each
\* side, and writes the break marker at break_y.
C8_BreakGlyph ==
    call.op = "plot" =>
        \A k \in Resolved(_broken_arrows) :
            LET r == _broken_arrows[k]
                y0 == YAt(r[1])
                y1 == YAt(r[2])
                p == r[5]
                break_y == QAdd(y0, QMul(QSub(y1, y0), p))
                half == QAbs(QDiv(QSub(y1, y0), Q(20, 1)))
            IN  (QLeq(Zero, p) /\ QLeq(p, One)) =>
                  /\ \E d \in Range(ret.draws) :
                        /\ d.prim = "plot" /\ d.color = "white"
                        /\ d.xs = <<r[3], r[3]>>
                        /\ QDiv(QAdd(d.ys[1], d.ys[2]), Q(2, 1)) = break_y
                        /\ QAbs(QSub(d.ys[1], break_y)) = half
                        /\ QAbs(QSub(d.ys[2], break_y)) = half
                  /\ \E t \in Range(ret.draws) :
                        t.prim = "text" /\ t.s = "~~" /\ t.y = break_y

\* the scenario y0 = 0.0, y1 = 1.0, p = 0.6: centre 0.6, half-height 0.05
C8_Witness ==
    /\ call.op = "plot"
    /\ Len(_broken_arrows) = 1
    /\ Resolved(_broken_arrows) = {1}
    /\ YAt(_broken_arrows[1][1]) = Zero
    /\ YAt(_broken_arrows[1][2]) = One
    /\ _broken_arrows[1][5] = Q(3, 5)
    /\ \E d \in Range(ret.draws) :
          d.prim = "plot" /\ d.color = "white" /\ d.ys = <<Q(11, 20), Q(13, 20)>>

\* where a Level occurs: the <<column, position>> pairs over every Column built
Occurrences(lvl) ==
    {p \in (DOMAIN Columns) \X (DOMAIN Levels) :
        p[2] \in DOMAIN Columns[p[1]].levels /\ Columns[p[1]].levels[p[2]] = lvl}

\* every Level occurs once, in one column, which is the one it points back to
OwnedByOneColumn ==
    \A lvl \in DOMAIN Levels :
        /\ Cardinality(Occurrences(lvl)) = 1
        /\ \A p \in Occurrences(lvl) : Levels[lvl].column = p[1]

\* a call keeps every Level as it is and only appends to levels lists; the
\* column add_column makes holds the seed energies in the given order, and
\* add_level puts its Level last
KeepsOwnersAndOrder ==
    /\ \A lvl \in DOMAIN Levels : lvl \in DOMAIN Levels' /\ Levels'[lvl] = Levels[lvl]
    /\ \A c \in DOMAIN Columns :
          /\ c \in DOMAIN Columns'
          /\ Len(Columns[c].levels) <= Len(Columns'[c].levels)
          /\ SubSeq(Columns'[c].levels, 1, Len(Columns[c].levels)) = Columns[c].levels
    /\ call'.op = "add_column" =>
          /\ columns' = Append(columns, ret')
          /\ [j \in DOMAIN Columns'[ret'].levels |->
                 Levels'[Columns'[ret'].levels[j]].energy]
               = (IF call'.levels = None THEN <<>> ELSE call'.levels[1])
    /\ call'.op = "add_level" =>
          /\ Columns'[call'.self].levels = Append(Columns[call'.self].levels, ret')
          /\ Levels'[ret'].energy = call'.energy
          /\ Levels'[ret'].column = call'.self

\* C9: after any sequence of add_column and Column.add_level calls every Level
\* is owned by exactly one Column: it occurs once in one levels list, its
\* column back-reference is that column and never changes, and every levels
\* list is in insertion order (the seed energies of add_column first, in the
\* given order, then the Levels of later add_level calls).
C9_LevelOwnership == [](OwnedByOneColumn) /\ [][KeepsOwnersAndOrder]_vars

C9_Witness ==
    /\ call.op = "add_level"
    /\ Len(columns) = 1
    /\ Len(Columns) = 2
    /\ EnergiesOf(Columns[columns[1]]) = <<Q(3, 1), Q(0, 1), Q(1, 1)>>
    /\ Levels[3].column = columns[1]

\* what a registration call must leave as it was
OnlyGrows(list) ==
    /\ Levels' = Levels /\ Columns' = Columns /\ columns' = columns
    /\ \A other \in {"_connections", "_arrows", "_broken_arrows", "_transitions",
                     "_emissions"} \ {list} :
          CASE other = "_connections" -> _connections' = _connections
            [] other = "_arrows" -> _arrows' = _arrows
            [] other = "_broken_arrows" -> _broken_arrows' = _broken_arrows
            [] other = "_transitions" -> _transitions' = _transitions
            [] other = "_emissions" -> _emissions' = _emissions

Given(arg, default) == IF arg = None THEN default ELSE arg[1]

AppendsOneRecord ==
    /\ call'.op = "connect" =>
          /\ _connections' = Append(_connections, <<call'.level_a, call'.level_b>>)
          /\ OnlyGrows("_connections")
    /\ call'.op = "add_vertical_arrow" =>
          /\ _arrows' = Append(_arrows,
                <<call'.level_a, call'.level_b, call'.x, call'.label,
                  Given(call'.color, "black")>>)
          /\ OnlyGrows("_arrows")
    /\ call'.op = "add_vertical_broken_arrow" =>
          /\ _broken_arrows' = Append(_broken_arrows,
                <<call'.level_a, call'.level_b, call'.x, call'.label,
                  Given(call'.break_position, Q(1, 2)), Given(call'.color, "black")>>)
          /\ OnlyGrows("_broken_arrows")
    /\ call'.op = "add_transition" =>
          /\ _transitions' = Append(_transitions,
                <<call'.level_a, call'.level_b, call'.x, call'.label,
                  Given(call'.color, "blue")>>)
          /\ OnlyGrows("_transitions")
    /\ call'.op = "add_spontaneous_emission" =>
          /\ _emissions' = Append(_emissions,
                <<call'.level_a, call'.level_b, call'.x, call'.label,
                  Given(call'.color, "red")>>)
          /\ OnlyGrows("_emissions")
    /\ call'.op \in {"add_column", "add_level", "Level", "plot"} =>
          lists' = lists

\* C10: over any sequence of builder and plot calls the five annotation lists
\* only grow by appending: each registration call appends one record with the
\* given Levels and arguments (label None, arrow colors "black", break position
\* 0.5, transition "blue", emission "red" when left out) to its own list,
\* whatever the Levels are, and changes nothing else; add_column, add_level and
\* plot leave the five lists as they are.
C10_ListsOnlyGrow == [][AppendsOneRecord]_vars

C10_Witness ==
    /\ call.op = "add_spontaneous_emission"
    /\ call.color = None
    /\ Len(_emissions) = 2
    /\ _emissions[1] # _emissions[2]
    /\ _emissions[2][5] = "red"
    /\ _emissions[2][1] \notin LaidOut

====
